---- MODULE Spec2Model ----
(***************************************************************************)
(* A model of the Sophie protocol client (package sophie, src/sophie.go): *)
(* NewClient and the setters, the dial loop, the path scan (fileCmd), the  *)
(* stream scan (readerCmd) and the status decoding (processResponse).      *)
(*                                                                         *)
(* Text (paths, wire lines, signatures) is a sequence of one-character     *)
(* strings; payload bytes are numbered by their offset in the source.      *)
(* Durations are whole seconds.  The daemon, the network and the           *)
(* filesystem are the environment: every dial, write, read and stat draws  *)
(* its outcome from a small set.                                           *)
(***************************************************************************)
EXTENDS Integers, Sequences, FiniteSets, TLC

\* ------------------------------------------------------------------ bounds
\* largest value handed to SetConnRetries
MaxRetries == 1
\* largest size of a source (bytes)
MaxSize == 10

\* ------------------------------------------------------- program constants
defaultTimeout == 15
defaultSleep == 1

\* ------------------------------------------------------------------- text
DigitChars == <<"0", "1", "2", "3", "4", "5", "6", "7", "8", "9">>

\* fmt's %d of a non-negative integer
RECURSIVE FormatInt(_)
FormatInt(n) ==
    IF n < 10 THEN <<DigitChars[n + 1]>>
    ELSE FormatInt(n \div 10) \o <<DigitChars[(n % 10) + 1]>>

\* strings.HasPrefix
HasPrefixExact(s, prefix) == s = prefix
HasPrefix(s, prefix) ==
    /\ Len(s) >= Len(prefix)
    /\ SubSeq(s, 1, Len(prefix)) = prefix

OK == <<"O", "K">>
StreamName == <<"s", "t", "r", "e", "a", "m">>
StreamPrefix == <<"s", "t", "r", "e", "a", "m", "/">>

\* ------------------------------------------------------------ environment
Networks == {"unix", "unixpacket", "tcp", "tcp4", "tcp6", "udp", ""}
defaultSock == "/var/lib/savdid/savdid.sock"
Addresses == {"", "/tmp/.dumx.sock", defaultSock}
\* what os.Stat answers
StatOutcomes == {"file", "dir", "notexist", "denied"}
\* the arguments the caller hands to the setters (seconds)
Durations == {0, 2}
RetryArgs == (0 - 1) .. MaxRetries
\* the paths handed to Scan
Paths == {<<>>, <<"/", "f">>, StreamName}
\* what one d.Dial answers
DialOutcomes == {"ok", "timeout", "refused"}
\* the lines the daemon may answer with
ServerLines ==
    { OK, <<>>, <<"0">>, <<"0", "x">>, <<"1">>, <<"1", "E">>,
      <<"1", ":", "E", "I", "C", "A", "R", "-", "A", "V", "-", "T", "e", "s", "t">>,
      <<"1", "E", "I", "C", "A", "R", "-", "A", "V", "-", "T", "e", "s", "t">>,
      <<"-", "1">>, <<"-", "1", "x">>, <<"X">> }
\* the readers handed to ScanReader: kind, total size, read position
SourceKinds == {"bytes.Buffer", "bytes.Reader", "strings.Reader", "os.File", "other"}
Sizes == {0, MaxSize}
Sources ==
    { s \in [kind : SourceKinds, size : Sizes, pos : {0, 1}, statOK : BOOLEAN] :
        /\ s.pos <= s.size
        /\ (s.kind # "os.File" => s.statOK)
        /\ (s.kind = "other" => s.size = MaxSize /\ s.pos = 0) }
NoSource == [kind |-> "nil", size |-> 0, pos |-> 0, statOK |-> TRUE]

\* ----------------------------------------------------------------- values
NilClient ==
    [nil |-> TRUE, network |-> "", address |-> "", connTimeout |-> 0,
     connRetries |-> 0, connSleep |-> 0, cmdTimeout |-> 0]
NoErr == [kind |-> "nil", line |-> <<>>, text |-> "", attempt |-> 0]
Err(kind) == [kind |-> kind, line |-> <<>>, text |-> "", attempt |-> 0]
NilResponse ==
    [nil |-> TRUE, Filename |-> <<>>, Signature |-> <<>>, Infected |-> FALSE,
     Raw |-> <<>>]
NoCall ==
    [fn |-> "none", p |-> <<>>, st |-> "none", src |-> NoSource, viaFile |-> FALSE]

VARIABLES
    c,       \* the Client the caller holds (NilClient: none)
    nerr,    \* the error of the last NewClient
    pc,      \* where the running scan stands ("idle": none runs)
    call,    \* the running scan: Scan or ScanReader, its argument
    i,       \* dial: the loop counter
    conn,    \* dial: the connection returned ("nil" or "conn")
    err,     \* the scan's err
    r,       \* the scan's r
    clen,    \* readerCmd: the content length found
    deadline,\* the deadline armed on the connection ("none", or the step it was armed before)
    nopen,   \* connections open now
    wire,    \* what the scan wrote on the connection, in order
    rd,      \* the lines the scan read from the connection, in order
    log      \* the scan's steps, in order

vars == <<c, nerr, pc, call, i, conn, err, r, clen, deadline, nopen, wire, rd, log>>
client == <<c, nerr>>
scan == <<pc, call, i, conn, err, r, clen, deadline, nopen, wire, rd, log>>

Init ==
    /\ c = NilClient
    /\ nerr = NoErr
    /\ pc = "idle"
    /\ call = NoCall
    /\ i = 0
    /\ conn = "nil"
    /\ err = NoErr
    /\ r = NilResponse
    /\ clen = 0
    /\ deadline = "none"
    /\ nopen = 0
    /\ wire = <<>>
    /\ rd = <<>>
    /\ log = <<>>

\* ------------------------------------------------- NewClient and the setters
IsUnixOnly(network) == network = "unix"
IsUnix(network) == network = "unix" \/ network = "unixpacket"
SupportedAndUdp(network) ==
    network \in {"unix", "unixpacket", "tcp", "tcp4", "tcp6", "udp"}
Supported(network) == network \in {"unix", "unixpacket", "tcp", "tcp4", "tcp6"}

\* the both-empty call stands for the unix socket at the default path
IsDefaultCall(network, address) == network = "" /\ address = ""
DefaultNetwork(network, address) ==
    IF IsDefaultCall(network, address) THEN "unix" ELSE network
DefaultAddressKeep(network, address) == address
DefaultAddress(network, address) ==
    IF IsDefaultCall(network, address) THEN defaultSock ELSE address

\* NewClient's result for a network and address, given what os.Stat answers
\* for the address it stats: the Client and the error it returns
NewClientResult(network0, address0, st) ==
    LET network == DefaultNetwork(network0, address0)
        address == DefaultAddress(network0, address0)
        made == [nil |-> FALSE, network |-> network, address |-> address,
                 connTimeout |-> defaultTimeout, connRetries |-> 0,
                 connSleep |-> defaultSleep, cmdTimeout |-> 0]
    IN  IF IsUnix(network) /\ st = "notexist"
          THEN [c |-> NilClient,
                err |-> [Err("unixSock") EXCEPT !.text = address]]
        ELSE IF ~Supported(network)
          THEN [c |-> NilClient,
                err |-> [Err("unsupportedProto") EXCEPT !.text = network]]
        ELSE [c |-> made,
              err |-> IF IsUnix(network) /\ st = "denied"
                        THEN Err("denied") ELSE NoErr]

\* st is what os.Stat answers for the address NewClient stats; the empty
\* path never exists
NewClient(network, address, st) ==
    /\ pc = "idle"
    /\ (DefaultAddress(network, address) = "" => st = "notexist")
    /\ c' = NewClientResult(network, address, st).c
    /\ nerr' = NewClientResult(network, address, st).err
    /\ UNCHANGED scan

SetConnTimeout(t) ==
    /\ pc = "idle" /\ ~c.nil
    /\ c' = [c EXCEPT !.connTimeout = t]
    /\ UNCHANGED <<nerr, scan>>

SetCmdTimeout(t) ==
    /\ pc = "idle" /\ ~c.nil
    /\ c' = [c EXCEPT !.cmdTimeout = t]
    /\ UNCHANGED <<nerr, scan>>

ClampRetriesNone(s) == s
ClampRetries(s) == IF s < 0 THEN 0 ELSE s

SetConnRetries(s) ==
    /\ pc = "idle" /\ ~c.nil
    /\ c' = [c EXCEPT !.connRetries = ClampRetries(s)]
    /\ UNCHANGED <<nerr, scan>>

SetConnSleep(s) ==
    /\ pc = "idle" /\ ~c.nil
    /\ c' = [c EXCEPT !.connSleep = s]
    /\ UNCHANGED <<nerr, scan>>

\* ------------------------------------------------------------ returning
\* defer tc.Close(): the connections left open once the deferred call ran
DeferredCloseLeak(open) == open
DeferredClose(open) == open - 1

\* the deferred calls of a returning scan: tc.Close() when a textproto.Conn
\* was made (hasTc), f.Close() when fileCmd opened the file
Deferred(hasTc) ==
    nopen' = IF hasTc THEN DeferredClose(nopen) ELSE nopen

DeferLog(lg, hasTc) ==
    lg \o (IF hasTc THEN <<"close">> ELSE <<>>)
       \o (IF call.viaFile THEN <<"fclose">> ELSE <<>>)

\* return with error e and response resp
Exit(e, resp, lg, hasTc) ==
    /\ pc' = "done"
    /\ err' = e
    /\ r' = resp
    /\ log' = DeferLog(lg, hasTc)
    /\ Deferred(hasTc)

\* a run-time panic: the deferred calls run, nothing is returned
Panic(lg, hasTc) ==
    /\ pc' = "panic"
    /\ err' = Err("panic")
    /\ r' = NilResponse
    /\ log' = DeferLog(lg, hasTc)
    /\ Deferred(hasTc)

\* ------------------------------------------------------------------ dial
\* the loop condition of dial
DialLoopCondOff(n, retries) == n <= retries + 1
DialLoopCond(n, retries) == n <= retries

\* e, ok := err.(net.Error); ok && e.Timeout()
IsTimeoutAnyError(e) == e.kind # "nil"
IsTimeout(e) == e.kind = "timeout"

\* the loop body after d.Dial: sleep and continue on a timeout, break otherwise
AfterAttemptNoBreak(e) == "sleep"
AfterAttempt(e) == IF IsTimeout(e) THEN "sleep" ELSE "dialed"

\* what d.Dial returns on the given attempt
DialErrFirst(o, attempt) ==
    IF o = "ok" THEN NoErr ELSE [Err(o) EXCEPT !.attempt = 1]
DialErr(o, attempt) ==
    IF o = "ok" THEN NoErr ELSE [Err(o) EXCEPT !.attempt = attempt]

DialEvent(o) ==
    CASE o = "ok" -> "dial:ok"
      [] o = "timeout" -> "dial:timeout"
      [] OTHER -> "dial:refused"

\* entering dial: i := 0 and the first test of the loop condition
EnterDial ==
    /\ i' = 0
    /\ conn' = "nil"
    /\ pc' = IF DialLoopCond(0, c.connRetries) THEN "dial" ELSE "dialed"

\* one d.Dial and the test of its error
DialAttempt(o) ==
    /\ pc = "dial"
    /\ conn' = IF o = "ok" THEN "conn" ELSE "nil"
    /\ err' = DialErr(o, i + 1)
    /\ nopen' = IF o = "ok" THEN nopen + 1 ELSE nopen
    /\ log' = Append(log, DialEvent(o))
    /\ pc' = AfterAttempt(err')
    /\ UNCHANGED <<client, call, i, r, clen, deadline, wire, rd>>

DialSleepCountsDown ==
    /\ pc = "sleep"
    /\ log' = Append(log, "sleep")
    /\ i' = i + 1
    /\ c' = [c EXCEPT !.connRetries = c.connRetries - 1]
    /\ pc' = IF DialLoopCond(i + 1, c.connRetries) THEN "dial" ELSE "dialed"
    /\ UNCHANGED <<nerr, call, conn, err, r, clen, deadline, nopen, wire, rd>>

\* time.Sleep(c.connSleep); continue
DialSleep ==
    /\ pc = "sleep"
    /\ log' = Append(log, "sleep")
    /\ i' = i + 1
    /\ pc' = IF DialLoopCond(i + 1, c.connRetries) THEN "dial" ELSE "dialed"
    /\ UNCHANGED <<client, call, conn, err, r, clen, deadline, nopen, wire, rd>>

\* ------------------------------------------------------- the command steps
\* if c.cmdTimeout > 0 { conn.SetDeadline(time.Now().Add(c.cmdTimeout)) }
ArmDeadlineAlways(cmdTimeout, step) == step
ArmDeadline(cmdTimeout, step) == IF cmdTimeout > 0 THEN step ELSE "none"
ArmLog(lg, cmdTimeout) == IF cmdTimeout > 0 THEN Append(lg, "arm") ELSE lg

\* what a write or a read on the connection may answer: a deadline has to be
\* armed for the operation to time out
IOOutcomes == IF deadline = "none" THEN {"ok", "eof"} ELSE {"ok", "eof", "iotimeout"}

Line(s) == [t |-> "line", s |-> s, b |-> <<>>]
Data(b) == [t |-> "data", s |-> <<>>, b |-> b]

\* the content of a source from its read position on
Unread(src) == [k \in 1 .. (src.size - src.pos) |-> src.pos + k]

\* readerCmd's type switch: the content length of a source
ContentLengthZero(src) ==
    [known |-> TRUE, err |-> NoErr, clen |-> 0]
ContentLength(src) ==
    CASE src.kind \in {"bytes.Buffer", "bytes.Reader", "strings.Reader"} ->
           [known |-> TRUE, err |-> NoErr, clen |-> src.size - src.pos]
      [] src.kind = "os.File" ->
           IF src.statOK
             THEN [known |-> TRUE, err |-> NoErr, clen |-> src.size]
             ELSE [known |-> FALSE, err |-> Err("fstat"), clen |-> 0]
      [] OTHER ->
           [known |-> FALSE, err |-> Err("noSize"), clen |-> 0]

\* the request line of a stream scan: "stream/%d"
StreamRequestBare(n) == FormatInt(n)
StreamRequest(n) == StreamPrefix \o FormatInt(n)

\* l != "OK"
AckOKAny(l) == TRUE
AckOK(l) == l = OK

\* fmt.Errorf("Invalid Server Response: %s", l)
InvalidRespErr(l) == [Err("invalidResp") EXCEPT !.line = l]

\* the request line of a path scan: "%s", p
PathRequestStream(p) == StreamPrefix \o p
PathRequest(p) == p

\* the path readerCmd hands to processResponse: ""
ReaderCmdPathKeep(p) == p
ReaderCmdPath(p) == <<>>

\* strings.HasPrefix(l, "-1")
IsUnknownStatusSwapped(l) == HasPrefix(l, <<"1", "-">>)
IsUnknownStatus(l) == HasPrefix(l, <<"-", "1">>)

\* l[2:]
SignatureStripOne(l) == SubSeq(l, 2, Len(l))
Signature(l) == SubSeq(l, 3, Len(l))

\* processResponse, once the line l is read, for the path p
ProcessResponse(l, p) ==
    LET named == [NilResponse EXCEPT !.nil = FALSE,
                    !.Filename = IF p = <<>> THEN StreamName ELSE p]
    IN  IF IsUnknownStatus(l)
          THEN [panic |-> FALSE, r |-> named, err |-> Err("unknownStatus")]
        ELSE IF HasPrefix(l, <<"1">>) \/ HasPrefix(l, <<"0">>)
          THEN IF HasPrefix(l, <<"1">>)
                 THEN IF Len(l) < 2
                        THEN [panic |-> TRUE, r |-> NilResponse, err |-> Err("panic")]
                        ELSE [panic |-> FALSE,
                              r |-> [named EXCEPT !.Raw = l,
                                       !.Signature = Signature(l),
                                       !.Infected = TRUE],
                              err |-> NoErr]
                 ELSE [panic |-> FALSE, r |-> [named EXCEPT !.Raw = l], err |-> NoErr]
        ELSE [panic |-> FALSE, r |-> named, err |-> NoErr]

IsReaderCmd == call.fn = "ScanReader" \/ call.viaFile

\* os.IsNotExist(err) of os.Stat's error
IsNotExistNever(st) == FALSE
IsNotExist(st) == st = "notexist"

\* os.Stat returned no FileInfo
StatNil(st) == st \in {"notexist", "denied"}

\* c.network != "unix" && c.network != "unixpacket"
IsTCPOnlyTcp(network) == network = "tcp"
IsTCP(network) == network # "unix" /\ network # "unixpacket"

\* Scan(p): fileCmd up to its call of dial or of readerCmd.  st is what
\* os.Stat(p) answers, opened whether os.Open(p) succeeds, size the file's size
Scan(p, st, opened, size) ==
    /\ pc = "idle" /\ ~c.nil
    /\ (p = <<>> => st = "notexist")
    /\ LET thisCall == [fn |-> "Scan", p |-> p, st |-> st, src |-> NoSource,
                        viaFile |-> FALSE]
           isTCP == IsTCP(c.network)
       IN  /\ wire' = <<>> /\ rd' = <<>> /\ clen' = 0 /\ deadline' = "none"
           /\ nopen' = nopen
           /\ IF IsNotExist(st)
                THEN /\ call' = thisCall
                     /\ pc' = "done" /\ err' = Err("notexist") /\ r' = NilResponse
                     /\ log' = <<"stat">>
                     /\ UNCHANGED <<i, conn>>
              ELSE IF isTCP /\ StatNil(st)
                THEN \* stat is nil: stat.IsDir() panics
                     /\ call' = thisCall
                     /\ pc' = "panic" /\ err' = Err("panic") /\ r' = NilResponse
                     /\ log' = <<"stat">>
                     /\ UNCHANGED <<i, conn>>
              ELSE IF isTCP /\ st = "dir"
                THEN /\ call' = thisCall
                     /\ pc' = "done" /\ err' = Err("tcpDir") /\ r' = NilResponse
                     /\ log' = <<"stat">>
                     /\ UNCHANGED <<i, conn>>
              ELSE IF isTCP /\ ~opened
                THEN /\ call' = thisCall
                     /\ pc' = "done" /\ err' = Err("open") /\ r' = NilResponse
                     /\ log' = <<"stat", "open:err">>
                     /\ UNCHANGED <<i, conn>>
              ELSE IF isTCP
                THEN /\ call' = [thisCall EXCEPT !.viaFile = TRUE,
                                   !.src = [kind |-> "os.File", size |-> size,
                                            pos |-> 0, statOK |-> TRUE]]
                     /\ err' = NoErr /\ r' = NilResponse
                     /\ log' = <<"stat", "open">>
                     /\ EnterDial
              ELSE /\ call' = thisCall
                   /\ err' = IF StatNil(st) THEN Err(st) ELSE NoErr
                   /\ r' = NilResponse
                   /\ log' = <<"stat">>
                   /\ EnterDial
    /\ UNCHANGED client

\* ScanReader(src): readerCmd up to its call of dial
ScanReader(src) ==
    /\ pc = "idle" /\ ~c.nil
    /\ call' = [fn |-> "ScanReader", p |-> <<>>, st |-> "none", src |-> src,
                viaFile |-> FALSE]
    /\ err' = NoErr /\ r' = NilResponse
    /\ wire' = <<>> /\ rd' = <<>> /\ clen' = 0 /\ deadline' = "none"
    /\ log' = <<>>
    /\ EnterDial
    /\ UNCHANGED <<client, nopen>>

\* fileCmd (unix): from dial's return to the request
FileCmdDialed ==
    /\ pc = "dialed" /\ ~IsReaderCmd
    /\ IF err # NoErr
         THEN /\ Exit(err, NilResponse, log, FALSE)
              /\ UNCHANGED deadline
         ELSE /\ deadline' = ArmDeadline(c.cmdTimeout, "request")
              /\ log' = ArmLog(log, c.cmdTimeout)
              /\ pc' = "sendPath"
              /\ UNCHANGED <<err, r, nopen>>
    /\ UNCHANGED <<client, call, i, conn, clen, wire, rd>>

\* fileCmd (unix): tc.PrintfLine("%s", p)
FileCmdSend(o) ==
    /\ pc = "sendPath"
    /\ o \in IOOutcomes
    /\ IF o = "ok"
         THEN /\ wire' = Append(wire, Line(PathRequest(call.p)))
              /\ log' = Append(log, "write")
              /\ pc' = "readStatus"
              /\ UNCHANGED <<err, r, nopen>>
         ELSE /\ Exit(Err(o), NilResponse, Append(log, "write:err"), TRUE)
              /\ UNCHANGED wire
    /\ UNCHANGED <<client, call, i, conn, clen, deadline, rd>>

\* readerCmd: from dial's return to the request
ReaderCmdDialed ==
    /\ pc = "dialed" /\ IsReaderCmd
    /\ IF err # NoErr
         THEN /\ Exit(err, NilResponse, log, FALSE)
              /\ UNCHANGED <<deadline, clen>>
         ELSE /\ deadline' = ArmDeadline(c.cmdTimeout, "request")
              /\ IF ContentLength(call.src).known
                   THEN /\ clen' = ContentLength(call.src).clen
                        /\ log' = ArmLog(log, c.cmdTimeout)
                        /\ pc' = "sendReq"
                        /\ UNCHANGED <<err, r, nopen>>
                   ELSE /\ Exit(ContentLength(call.src).err, NilResponse,
                                ArmLog(log, c.cmdTimeout), TRUE)
                        /\ UNCHANGED clen
    /\ UNCHANGED <<client, call, i, conn, wire, rd>>

\* readerCmd: tc.PrintfLine("stream/%d", clen)
ReaderCmdSend(o) ==
    /\ pc = "sendReq"
    /\ o \in IOOutcomes
    /\ IF o = "ok"
         THEN /\ wire' = Append(wire, Line(StreamRequest(clen)))
              /\ log' = Append(log, "write")
              /\ pc' = "readAck"
              /\ UNCHANGED <<err, r, nopen>>
         ELSE /\ Exit(Err(o), NilResponse, Append(log, "write:err"), TRUE)
              /\ UNCHANGED wire
    /\ UNCHANGED <<client, call, i, conn, clen, deadline, rd>>

\* readerCmd: tc.ReadLine() and the test of the acknowledgement
ReaderCmdAck(o, l) ==
    /\ pc = "readAck"
    /\ o \in IOOutcomes
    /\ IF o # "ok"
         THEN /\ Exit(Err(o), NilResponse, Append(log, "read:err"), TRUE)
              /\ UNCHANGED rd
         ELSE /\ rd' = Append(rd, l)
              /\ IF AckOK(l)
                   THEN /\ log' = Append(log, "read")
                        /\ pc' = "copy"
                        /\ UNCHANGED <<err, r, nopen>>
                   ELSE Exit(InvalidRespErr(l), NilResponse, Append(log, "read"), TRUE)
    /\ UNCHANGED <<client, call, i, conn, clen, deadline, wire>>

\* readerCmd: io.Copy(tc.Writer.W, i) and tc.W.Flush(), whose error is dropped.
\* A failing copy has written the first k bytes
ReaderCmdCopy(o, k, flushed) ==
    /\ pc = "copy"
    /\ o \in IOOutcomes
    /\ k \in {0, Len(Unread(call.src)) - 1} /\ k >= 0
    /\ IF o = "ok"
         THEN /\ wire' = IF flushed THEN Append(wire, Data(Unread(call.src))) ELSE wire
              /\ log' = log \o <<"copy", IF flushed THEN "flush" ELSE "flush:err">>
              /\ pc' = "readStatus"
              /\ UNCHANGED <<err, r, nopen>>
         ELSE /\ wire' = IF k > 0 THEN Append(wire, Data(SubSeq(Unread(call.src), 1, k)))
                         ELSE wire
              /\ flushed
              /\ Exit(Err(o), NilResponse, Append(log, "copy:err"), TRUE)
    /\ UNCHANGED <<client, call, i, conn, clen, deadline, rd>>

\* processResponse, and the return of fileCmd or readerCmd
ProcessResponseStep(o, l) ==
    /\ pc = "readStatus"
    /\ o \in IOOutcomes
    /\ IF o # "ok"
         THEN /\ Exit(Err(o), NilResponse, Append(log, "read:err"), TRUE)
              /\ UNCHANGED rd
         ELSE LET res == ProcessResponse(l, IF IsReaderCmd THEN ReaderCmdPath(call.p)
                                                 ELSE call.p)
              IN  /\ rd' = Append(rd, l)
                  /\ IF res.panic
                       THEN Panic(Append(log, "read"), TRUE)
                       ELSE Exit(res.err, res.r, Append(log, "read"), TRUE)
    /\ UNCHANGED <<client, call, i, conn, clen, deadline, wire>>

\* the caller takes the result
Return ==
    /\ pc = "done"
    /\ pc' = "idle"
    /\ call' = NoCall
    /\ i' = 0 /\ conn' = "nil" /\ err' = NoErr /\ r' = NilResponse
    /\ clen' = 0 /\ deadline' = "none"
    /\ wire' = <<>> /\ rd' = <<>> /\ log' = <<>>
    /\ UNCHANGED <<client, nopen>>

\* an unrecovered panic ends the process; a new one starts
Restart ==
    /\ pc = "panic"
    /\ c' = NilClient /\ nerr' = NoErr
    /\ pc' = "idle"
    /\ call' = NoCall
    /\ i' = 0 /\ conn' = "nil" /\ err' = NoErr /\ r' = NilResponse
    /\ clen' = 0 /\ deadline' = "none" /\ nopen' = 0
    /\ wire' = <<>> /\ rd' = <<>> /\ log' = <<>>

Next ==
    \/ \E n \in Networks, a \in Addresses, st \in StatOutcomes : NewClient(n, a, st)
    \/ \E t \in Durations : SetConnTimeout(t)
    \/ \E t \in Durations : SetCmdTimeout(t)
    \/ \E s \in RetryArgs : SetConnRetries(s)
    \/ \E s \in Durations : SetConnSleep(s)
    \/ \E p \in Paths, st \in StatOutcomes, opened \in BOOLEAN, size \in Sizes :
          Scan(p, st, opened, size)
    \/ \E src \in Sources : ScanReader(src)
    \/ \E o \in DialOutcomes : DialAttempt(o)
    \/ DialSleep
    \/ FileCmdDialed
    \/ \E o \in {"ok", "eof", "iotimeout"} : FileCmdSend(o)
    \/ ReaderCmdDialed
    \/ \E o \in {"ok", "eof", "iotimeout"} : ReaderCmdSend(o)
    \/ \E o \in {"ok", "eof", "iotimeout"}, l \in ServerLines : ReaderCmdAck(o, l)
    \/ \E o \in {"ok", "eof", "iotimeout"}, k \in 0 .. MaxSize, flushed \in BOOLEAN :
          ReaderCmdCopy(o, k, flushed)
    \/ \E o \in {"ok", "eof", "iotimeout"}, l \in ServerLines : ProcessResponseStep(o, l)
    \/ Return
    \/ Restart

Spec == Init /\ [][Next]_vars

\* ------------------------------------------------------------ the claims
DialEvents == {"dial:ok", "dial:timeout", "dial:refused"}
Count(lg, S) == Cardinality({k \in 1 .. Len(lg) : lg[k] \in S})
Returned == pc \in {"done", "panic"}

DigitValue(ch) == CHOOSE d \in 0 .. 9 : DigitChars[d + 1] = ch
\* the number a string of decimal digits writes
RECURSIVE ParseInt(_)
ParseInt(s) ==
    IF s = <<>> THEN 0
    ELSE ParseInt(SubSeq(s, 1, Len(s) - 1)) * 10 + DigitValue(s[Len(s)])

\* C1: a scan makes at most connRetries+1 dial attempts, and exactly
\* connRetries+1 once the dial stage is over and every attempt timed out.
C1_DialAttempts ==
    /\ Count(log, DialEvents) <= c.connRetries + 1
    /\ ( /\ pc \in {"dialed", "done", "panic"}
         /\ pc = "dialed" \/ Count(log, DialEvents) > 0
         /\ Count(log, {"dial:ok", "dial:refused"}) = 0
         => Count(log, {"dial:timeout"}) = c.connRetries + 1 )

C1_Witness ==
    /\ pc = "dialed"
    /\ c.connRetries = 1
    /\ log = <<"dial:timeout", "sleep", "dial:timeout", "sleep">>

\* C2: a dial attempt that fails with an error that is no timeout ends the
\* dial stage: no attempt and no sleep follow it, nothing is written or read,
\* and the scan returns that attempt's error and no response.
C2_NonTimeoutAborts ==
    \A k \in 1 .. Len(log) :
        log[k] = "dial:refused" =>
            /\ \A j \in (k + 1) .. Len(log) : log[j] = "fclose"
            /\ pc \in {"dialed", "done"}
            /\ err = [Err("refused") EXCEPT
                        !.attempt = Count(SubSeq(log, 1, k), DialEvents)]
            /\ conn = "nil" /\ nopen = 0
            /\ r = NilResponse
            /\ wire = <<>> /\ rd = <<>>

C2_Witness ==
    /\ pc = "done"
    /\ c.connRetries = 1
    /\ err.kind = "refused" /\ err.attempt = 1
    /\ log = <<"dial:refused">>

\* C3: when all connRetries+1 attempts timed out, the scan returns the timeout
\* error of the last attempt, no connection and no response, and has written
\* nothing.
C3_TimeoutsExhausted ==
    pc = "done" /\ Count(log, {"dial:timeout"}) = c.connRetries + 1 =>
        /\ err = [Err("timeout") EXCEPT !.attempt = c.connRetries + 1]
        /\ conn = "nil" /\ nopen = 0
        /\ r = NilResponse
        /\ wire = <<>> /\ rd = <<>>

C3_Witness ==
    /\ pc = "done"
    /\ c.connRetries = 1
    /\ err.kind = "timeout" /\ err.attempt = 2
    /\ wire = <<>>

\* C4: every sleep of the dial stage is followed by another dial attempt, so
\* a scan sleeps at most connRetries times.
C4_SleepOnlyBetweenAttempts ==
    pc \in {"dialed", "done"} =>
        /\ \A k \in 1 .. Len(log) :
              log[k] = "sleep" =>
                  \E j \in (k + 1) .. Len(log) : log[j] \in DialEvents
        /\ Count(log, {"sleep"}) <= c.connRetries

\* C5: no connection is open once a scan has returned, on any exit path.
C5_ConnectionClosed ==
    pc \in {"idle", "done", "panic"} => nopen = 0

C5_Witness ==
    /\ pc = "done"
    /\ Count(log, {"dial:ok"}) = 1
    /\ err.kind = "iotimeout"
    /\ Count(log, {"close"}) = 1
    /\ nopen = 0

\* C6: a scan establishes at most one connection: after a successful dial no
\* attempt and no sleep follow, and never are two connections open.
C6_OneConnection ==
    /\ nopen <= 1
    /\ Count(log, {"dial:ok"}) <= 1
    /\ \A k \in 1 .. Len(log) :
          log[k] = "dial:ok" =>
              \A j \in (k + 1) .. Len(log) : log[j] \notin (DialEvents \cup {"sleep"})

C6_Witness ==
    /\ pc = "done"
    /\ Count(log, {"dial:ok"}) = 1
    /\ Count(log, {"read:err"}) = 1
    /\ Len(rd) = 1
    /\ c.connRetries = 1

\* C7: in a stream scan the first thing written is the line stream/N, N the
\* length found in decimal (the source's size when nothing of it was read),
\* and payload is written only after the line OK was read.
C7_RequestBeforePayload ==
    IsReaderCmd /\ wire # <<>> =>
        /\ wire[1].t = "line"
        /\ HasPrefix(wire[1].s, <<"s", "t", "r", "e", "a", "m", "/">>)
        /\ LET digits == SubSeq(wire[1].s, 8, Len(wire[1].s))
           IN  /\ Len(digits) = IF clen < 10 THEN 1 ELSE 2
               /\ \A k \in 1 .. Len(digits) : digits[k] \in {DigitChars[d] : d \in 1 .. 10}
               /\ ParseInt(digits) = clen
        /\ (call.src.pos = 0 => clen = call.src.size)
        /\ \A k \in 2 .. Len(wire) :
              /\ wire[k].t = "data"
              /\ k = 2
              /\ rd # <<>> /\ rd[1] = OK

C7_Witness ==
    /\ pc = "readStatus"
    /\ call.fn = "ScanReader"
    /\ clen = MaxSize
    /\ Len(wire) = 2 /\ wire[2].t = "data"
    /\ rd = <<OK>>

\* C8: in a stream scan, when the acknowledgement read is not OK the scan
\* fails with the invalid-response error carrying that line, writes no
\* payload and reads no further line.
C8_BadAcknowledgement ==
    IsReaderCmd /\ rd # <<>> /\ rd[1] # <<"O", "K">> =>
        /\ pc = "done"
        /\ err = [Err("invalidResp") EXCEPT !.line = rd[1]]
        /\ r = NilResponse
        /\ Len(rd) = 1
        /\ Len(wire) = 1 /\ wire[1].t = "line"
        /\ nopen = 0

C8_Witness ==
    /\ pc = "done"
    /\ call.fn = "ScanReader"
    /\ rd = << <<"X">> >>
    /\ err.kind = "invalidResp" /\ err.line = <<"X">>

\* C9: for every accepted source and read position, the payload bytes a
\* stream scan writes are as many as the request line declared.
C9_PayloadMatchesDeclared ==
    IsReaderCmd /\ Count(log, {"flush"}) = 1 =>
        /\ Len(wire) = 2
        /\ Len(wire[2].b) = ParseInt(SubSeq(wire[1].s, 8, Len(wire[1].s)))

\* C10 as stated: ScanReader on a source of unknown length fails with the
\* unknown-length error.
C10_AlwaysUnknownLength ==
    pc = "done" /\ call.fn = "ScanReader" /\ call.src.kind = "other" =>
        err = Err("noSize")

\* C10, amended: ScanReader on a source of unknown length dials first; when
\* the dial succeeds it fails with the unknown-length error, having written
\* and read nothing, and the connection is closed; when the dial fails it
\* returns the dial error.
C10_UnknownLengthAfterDial ==
    Returned /\ call.fn = "ScanReader" /\ call.src.kind = "other" =>
        /\ pc = "done"
        /\ r = NilResponse
        /\ wire = <<>> /\ rd = <<>>
        /\ nopen = 0
        /\ IF Count(log, {"dial:ok"}) = 1
             THEN err = Err("noSize")
             ELSE err.kind \in {"timeout", "refused"}

C10_Witness ==
    /\ pc = "done"
    /\ call.fn = "ScanReader" /\ call.src.kind = "other"
    /\ Count(log, {"dial:ok"}) = 1
    /\ err.kind = "noSize"

\* the status line of a returned scan, once processResponse has read it
StatusRead == Returned /\ Len(rd) = (IF IsReaderCmd THEN 2 ELSE 1)
StatusLine == rd[Len(rd)]
StartsWith(l, ch) == Len(l) >= 1 /\ l[1] = ch
StartsMinusOne(l) == Len(l) >= 2 /\ l[1] = "-" /\ l[2] = "1"
IsPathScan == call.fn = "Scan" /\ c.network \in {"unix", "unixpacket"}
EicarName == <<"E", "I", "C", "A", "R", "-", "A", "V", "-", "T", "e", "s", "t">>

\* C11: a path scan on a unix or unixpacket Client, for an existing path,
\* writes one request line, exactly the path, on one connection, reads one
\* response line only after that, decodes it and closes the connection.
C11_PathExchange ==
    IsPathScan /\ call.st \in {"file", "dir"} =>
        /\ Count(log, {"dial:ok"}) <= 1
        /\ Len(wire) <= 1
        /\ (wire # <<>> => wire[1] = [t |-> "line", s |-> call.p, b |-> <<>>])
        /\ Len(rd) <= 1
        /\ (rd # <<>> =>
              /\ wire # <<>>
              /\ Returned
              /\ Len(log) >= 3
              /\ SubSeq(log, Len(log) - 2, Len(log)) = <<"write", "read", "close">>
              /\ nopen = 0
              /\ (pc = "done" => ~r.nil))

C11_Witness ==
    /\ pc = "done"
    /\ call.fn = "Scan" /\ c.network = "unixpacket" /\ call.st = "file"
    /\ call.p = <<"/", "f">>
    /\ wire = <<[t |-> "line", s |-> <<"/", "f">>, b |-> <<>>]>>
    /\ rd = << <<"0">> >>
    /\ ~r.nil /\ err = NoErr

\* C12: Scan of a directory on a tcp, tcp4 or tcp6 Client fails with the
\* directory error without a dial attempt, an opened file or any I/O.
C12_TcpDirectory ==
    call.fn = "Scan" /\ c.network \in {"tcp", "tcp4", "tcp6"} /\ call.st = "dir" =>
        /\ pc = "done"
        /\ err = Err("tcpDir")
        /\ r = NilResponse
        /\ log = <<"stat">>
        /\ wire = <<>> /\ rd = <<>>
        /\ conn = "nil" /\ nopen = 0

C12_Witness ==
    /\ pc = "done"
    /\ call.fn = "Scan" /\ c.network = "tcp6" /\ call.st = "dir"
    /\ err.kind = "tcpDir"

\* C13: Scan of a path that does not exist fails, on every transport, with
\* the not-found error of the stat, before any dial attempt or write.
C13_PathNotFound ==
    call.fn = "Scan" /\ call.st = "notexist" =>
        /\ pc = "done"
        /\ err = Err("notexist")
        /\ r = NilResponse
        /\ log = <<"stat">>
        /\ wire = <<>> /\ rd = <<>>
        /\ conn = "nil" /\ nopen = 0

C13_Witness ==
    /\ pc = "done"
    /\ call.fn = "Scan" /\ call.st = "notexist" /\ call.p = <<"/", "f">>
    /\ c.network = "unix"
    /\ err.kind = "notexist"

\* C14: the Filename of a returned Response is the path given to Scan when
\* the Client is unix or unixpacket, and "stream" for every ScanReader and
\* for every Scan on a tcp, tcp4 or tcp6 Client.
C14_Filename ==
    Returned /\ ~r.nil =>
        r.Filename = IF IsPathScan THEN call.p ELSE <<"s", "t", "r", "e", "a", "m">>

C14_Witness ==
    /\ pc = "done"
    /\ call.fn = "Scan" /\ c.network = "tcp4" /\ call.p = <<"/", "f">>
    /\ ~r.nil
    /\ r.Filename = <<"s", "t", "r", "e", "a", "m">>

\* C15 as stated: a status line 1 followed at once by S decodes to
\* infected, signature S and raw the line.
C15_SignatureAfterDigit ==
    StatusRead /\ StartsWith(StatusLine, "1") =>
        /\ pc = "done"
        /\ r.Infected
        /\ r.Raw = StatusLine
        /\ r.Signature = SubSeq(StatusLine, 2, Len(StatusLine))

\* C15, amended: a status line that starts with 1 and has at least two
\* characters decodes to infected, raw the line and signature the line
\* without its first two characters (the digit and the character after it):
\* 1:EICAR-AV-Test gives EICAR-AV-Test, 1EICAR-AV-Test gives ICAR-AV-Test.
C15_SignatureAfterTwo ==
    StatusRead /\ StartsWith(StatusLine, "1") /\ Len(StatusLine) >= 2 =>
        /\ pc = "done"
        /\ err = NoErr
        /\ r.Infected
        /\ r.Raw = StatusLine
        /\ StatusLine = <<StatusLine[1], StatusLine[2]>> \o r.Signature
        /\ (StatusLine = <<"1", ":">> \o EicarName => r.Signature = EicarName)
        /\ (StatusLine = <<"1">> \o EicarName => <<"E">> \o r.Signature = EicarName)

C15_Witness ==
    /\ pc = "done"
    /\ StatusRead
    /\ StatusLine = <<"1">> \o EicarName
    /\ r.Infected
    /\ Len(r.Signature) = Len(EicarName) - 1

\* C16: a status line that starts with none of 0, 1 and -1 fails with the
\* invalid-response error carrying the line.
C16_UnexpectedStatus ==
    StatusRead /\ ~StartsWith(StatusLine, "0") /\ ~StartsWith(StatusLine, "1")
               /\ ~StartsMinusOne(StatusLine) =>
        /\ pc = "done"
        /\ err = [Err("invalidResp") EXCEPT !.line = StatusLine]

\* C17: a status line that starts with -1 fails with the unknown-status
\* error and is reported neither clean nor infected.
C17_UnknownStatus ==
    StatusRead /\ StartsMinusOne(StatusLine) =>
        /\ pc = "done"
        /\ err = Err("unknownStatus")
        /\ ~r.Infected
        /\ r.Signature = <<>> /\ r.Raw = <<>>

C17_Witness ==
    /\ pc = "done"
    /\ StatusRead
    /\ StatusLine = <<"-", "1", "x">>
    /\ err.kind = "unknownStatus"

\* C18: a status line that starts with 0 decodes, without error, to a
\* Response that is not infected, with no signature and raw the whole line.
C18_Clean ==
    StatusRead /\ StartsWith(StatusLine, "0") =>
        /\ pc = "done"
        /\ err = NoErr
        /\ ~r.nil
        /\ ~r.Infected
        /\ r.Signature = <<>>
        /\ r.Raw = StatusLine

C18_Witness ==
    /\ pc = "done"
    /\ StatusRead
    /\ StatusLine = <<"0", "x">>
    /\ r.Raw = <<"0", "x">> /\ ~r.Infected /\ err = NoErr

\* C19 as stated: in every returned Response the Signature is non-empty if
\* and only if Infected is true.
C19_SignatureIffInfected ==
    pc = "done" /\ ~r.nil => (r.Signature # <<>> <=> r.Infected)

\* C19, amended: in every returned Response a non-empty Signature implies
\* Infected; an infected Response has an empty Signature exactly when its
\* status line is two characters long.
C19_SignatureImpliesInfected ==
    pc = "done" /\ ~r.nil =>
        /\ (r.Signature # <<>> => r.Infected)
        /\ (r.Infected => (r.Signature = <<>> <=> Len(r.Raw) = 2))

C19_Witness ==
    /\ pc = "done"
    /\ ~r.nil /\ err = NoErr
    /\ r.Infected
    /\ r.Signature = <<>>
    /\ r.Raw = <<"1", "E">>

\* C20: every step of the exchange (request send, acknowledgement read,
\* payload write, status read) runs under a deadline armed immediately
\* before it.
IOSteps == {"write", "write:err", "read", "read:err", "copy", "copy:err"}
C20_RearmedBeforeEachStep ==
    \A k \in 1 .. Len(log) :
        log[k] \in IOSteps => k > 1 /\ log[k - 1] = "arm"

\* C21: whenever a step of the exchange fails (the dial stage, the request
\* write, the acknowledgement read, the payload copy, the payload flush, the
\* status read), the scan returns a non-nil error.
FailedSteps == {"write:err", "read:err", "copy:err", "flush:err"}
DialStageFailed == Count(log, DialEvents) > 0 /\ Count(log, {"dial:ok"}) = 0
C21_NoSilentFailure ==
    pc = "done" /\ (Count(log, FailedSteps) > 0 \/ DialStageFailed)
        => err # NoErr

\* C22: the stored connRetries is never negative, and SetConnRetries(s)
\* stores 0 for s < 0 and s for s >= 0.
C22_RetriesNonNegative ==
    /\ [](c.connRetries >= 0)
    /\ [][\A s \in RetryArgs :
            SetConnRetries(s) =>
                c'.connRetries = (IF s < 0 THEN 0 ELSE s)]_vars

C22_Witness ==
    /\ ~c.nil
    /\ pc = "idle"
    /\ c.connRetries = MaxRetries

\* C23: for a network other than unix, unixpacket, tcp, tcp4 and tcp6, the
\* both-empty call aside, NewClient returns no Client and the unsupported
\* protocol error that names the network.
FiveNetworks == {"unix", "unixpacket", "tcp", "tcp4", "tcp6"}
C23_UnsupportedTransport ==
    [][\A n \in Networks, a \in Addresses, st \in StatOutcomes :
         NewClient(n, a, st) /\ n \notin FiveNetworks /\ ~(n = "" /\ a = "")
             => /\ c' = NilClient
                /\ nerr'.kind = "unsupportedProto"
                /\ nerr'.text = n]_vars

C23_Witness ==
    /\ c.nil
    /\ nerr.kind = "unsupportedProto"
    /\ nerr.text = "udp"

\* C24: for network unix or unixpacket and an address that does not exist,
\* NewClient returns no Client and the socket-not-found error that names
\* exactly that address.
C24_SocketNotFound ==
    [][\A n \in {"unix", "unixpacket"}, a \in Addresses :
         NewClient(n, a, "notexist")
             => /\ c' = NilClient
                /\ nerr'.kind = "unixSock"
                /\ nerr'.text = a]_vars

C24_Witness ==
    /\ c.nil
    /\ nerr.kind = "unixSock"
    /\ nerr.text = "/tmp/.dumx.sock"

\* C25: the Client a successful NewClient returns has connTimeout 15 s,
\* connRetries 0, connSleep 1 s and cmdTimeout 60 s.
C25_Defaults ==
    [][\A n \in Networks, a \in Addresses, st \in StatOutcomes :
         NewClient(n, a, st) /\ ~c'.nil
             => /\ c'.connTimeout = 15
                /\ c'.connRetries = 0
                /\ c'.connSleep = 1
                /\ c'.cmdTimeout = 60]_vars

\* C26: NewClient("", "") returns what NewClient("unix", the default socket
\* path) returns, whatever os.Stat answers for that path: the same Client, or
\* the same socket-not-found error naming the default path.
DefaultPath == "/var/lib/savdid/savdid.sock"
C26_DefaultCall ==
    [][\A st \in StatOutcomes :
         NewClient("", "", st)
             => /\ c' = NewClientResult("unix", DefaultPath, st).c
                /\ nerr' = NewClientResult("unix", DefaultPath, st).err
                /\ (st = "notexist" =>
                      /\ c'.nil
                      /\ nerr'.kind = "unixSock" /\ nerr'.text = DefaultPath)
                /\ (st = "file" =>
                      /\ ~c'.nil /\ nerr' = NoErr
                      /\ c'.network = "unix" /\ c'.address = DefaultPath)]_vars

C26_Witness ==
    /\ ~c.nil /\ nerr = NoErr
    /\ c.network = "unix"
    /\ c.address = DefaultPath

\* C27: no step of a scan changes the Client, whether the scan succeeds or
\* fails; no setter changes network or address; and a scan starts from the
\* same state whatever scans ran before it.
ScanStep == pc \notin {"idle", "panic"} \/ (pc = "idle" /\ pc' # "idle")
SetterStep ==
    \/ \E t \in Durations : SetConnTimeout(t) \/ SetCmdTimeout(t) \/ SetConnSleep(t)
    \/ \E s \in RetryArgs : SetConnRetries(s)
C27_ScanLeavesClient ==
    /\ [](pc = "idle" =>
            /\ call = NoCall /\ i = 0 /\ conn = "nil" /\ err = NoErr
            /\ r = NilResponse /\ clen = 0 /\ deadline = "none" /\ nopen = 0
            /\ wire = <<>> /\ rd = <<>> /\ log = <<>>)
    /\ [][ /\ (ScanStep => c' = c)
           /\ (SetterStep =>
                 c'.network = c.network /\ c'.address = c.address)]_vars

C27_Witness ==
    /\ pc = "done"
    /\ err.kind = "timeout"
    /\ Count(log, {"sleep"}) = 2
    /\ c.connRetries = 1 /\ c.cmdTimeout = 2 /\ c.connSleep = 2
    /\ c.network = "tcp" /\ c.address = "/tmp/.dumx.sock"

\* C28: NewClient returns no Client whenever it returns a non-nil error.
C28_ClientOrError ==
    nerr # NoErr => c.nil

\* C29: when the stat of Scan's path fails for a reason other than
\* non-existence, Scan does not panic, opens no connection and returns a
\* non-nil error.
C29_StatFailure ==
    call.fn = "Scan" /\ call.st = "denied" =>
        /\ pc # "panic"
        /\ Count(log, DialEvents) = 0 /\ nopen = 0
        /\ (pc = "done" => err # NoErr /\ r.nil)

\* C30: whatever status line is read, the scan returns a Response or an
\* error: decoding the line never panics.
C30_DecodingTotal ==
    Len(rd) > 0 => pc # "panic"

\* C31 (as stated): with cmdTimeout = 0, a scan that reached the request send
\* ran under a deadline and returns a timeout error and no Response.
RequestSent == Count(log, {"write", "write:err"}) > 0
====
